---- MODULE Spec2Model ----
(***************************************************************************)
(* Model of the Firecracker VM manager of DELTA3:                          *)
(*   src/server/vm_manager.py  (FirecrackerVM, VMManager)                  *)
(*   src/server/api.py         (the /vm and /execute handlers)             *)
(*                                                                         *)
(* A request handler runs as a sequence of steps, one per statement of    *)
(* the code that touches shared state (the map vms, the socket and image  *)
(* files, the blob store, the OS processes).  Spec interleaves the        *)
(* handlers at every step (VMManager holds no lock); SeqSpec runs one     *)
(* handler at a time, as the single event loop of api.py does; AliasSpec  *)
(* does the same for two users whose ids give the same file paths.        *)
(* LiveSpec adds fairness of the handlers and a hypervisor that may stop  *)
(* answering; ParseSpec runs the response parser of _api_call alone.      *)
(***************************************************************************)
EXTENDS Integers, FiniteSets, Sequences, TLC

\* ------------------------------------------------------------------ bounds
\* OS process ids the model hands out; Popen fails once they are used up.
MaxProcs == 2
\* The readiness poll of start: range(50) in the code, scaled down.
max_attempts == 2
\* Longest response, in tokens, the parser of _api_call is tried on.
MaxResp == 3

\* The user ids of the model, each with the characters of the string.  The
\* id is the username given to /auth/register, which accepts any string.
Spelling ==
  ("alice" :> <<"a", "l", "i", "c", "e">>) @@
  ("bob" :> <<"b", "o", "b">>) @@
  ("./alice" :> <<".", "/", "a", "l", "i", "c", "e">>)

Tenants == DOMAIN Spelling
Threads == {1, 2}
Pids    == 1..MaxProcs
NoVM    == 0

\* ------------------------------------------------------------------- paths
\* A path is the sequence of its components.  Path(vm_dir):
vm_dir == << <<"t", "m", "p">>,
             <<"f", "i", "r", "e", "c", "r", "a", "c", "k", "e", "r",
               "-", "v", "m", "s">> >>

\* str.split("/")
RECURSIVE Split(_)
Split(s) ==
  IF s = <<>> THEN << <<>> >>
  ELSE LET r == Split(Tail(s)) IN
       IF Head(s) = "/" THEN << <<>> >> \o r
       ELSE << <<Head(s)>> \o Head(r) >> \o Tail(r)

\* The components pathlib keeps of a string: empty ones and "." are dropped.
Parts(s) == SelectSeq(Split(s), LAMBDA g : g # <<>> /\ g # <<".">>)

\* Path.__truediv__: an absolute right operand replaces the left one.
Join(base, s) ==
  IF s # <<>> /\ Head(s) = "/" THEN Parts(s) ELSE base \o Parts(s)

_get_user_rootfs_path(user_id) ==
  Join(vm_dir, Spelling[user_id] \o
       <<"_", "r", "o", "o", "t", "f", "s", ".", "e", "x", "t", "4">>)

_get_socket_path(user_id) ==
  Join(vm_dir, Spelling[user_id] \o <<".", "s", "o", "c", "k">>)

\* f"users/{user_id}/rootfs.ext4": a key of the store, not a path
s3_key(user_id) ==
  <<"u", "s", "e", "r", "s", "/">> \o Spelling[user_id] \o
  <<"/", "r", "o", "o", "t", "f", "s", ".", "e", "x", "t", "4">>

\* The files of the state are named by a user id instead of the path itself:
\* two ids name the same file exactly when their paths are equal.  The three
\* files of every user id, computed once:
RootfsPath ==
  [t \in Tenants |->
     CHOOSE u \in Tenants : _get_user_rootfs_path(u) = _get_user_rootfs_path(t)]

SocketPath ==
  [t \in Tenants |->
     CHOOSE u \in Tenants : _get_socket_path(u) = _get_socket_path(t)]

S3Key ==
  [t \in Tenants |-> CHOOSE u \in Tenants : s3_key(u) = s3_key(t)]

RootfsPaths == {RootfsPath[t] : t \in Tenants}
SocketPaths == {SocketPath[t] : t \in Tenants}
S3Keys      == {S3Key[t] : t \in Tenants}

\* The four control-plane calls of start, in the order of the code.
BootPc == <<"st_boot_source", "st_drive", "st_machine", "st_action">>

VARIABLES
  vms,      \* VMManager.vms: tenant -> FirecrackerVM object (0: no entry)
  nprocs,   \* number of OS processes spawned so far (object k owns pid k)
  ptenant,  \* the tenant whose socket path process k was given
  pstate,   \* OS process k and FirecrackerVM.process of object k:
            \*   "none"      not spawned yet
            \*   "spawned"   alive, socket not bound yet
            \*   "listening" alive, socket bound, answering its API
            \*   "mute"      alive, socket bound, connections taken by the
            \*               listen queue but no request ever answered
            \*   "exited"    exited, the object still holds the handle
            \*   "stopped"   exited, stop() has set the handle to None
  cfg,      \* boot steps the hypervisor k has accepted, in order (4: running)
  sock,     \* socket file at a path: 0 absent, else the pid that bound it
  rootfs,   \* local image file at a path: "none" or its content
  s3,       \* durable object at a key: "none" or its content
  hasS3,    \* VMManager.s3_client is not None
  pc,       \* per handler: the statement it is at
  targ,     \* per handler: user_id
  sarg,     \* per handler: the save argument of stop_vm
  vm,       \* per handler: the local variable vm (0: unset)
  polls,    \* per handler: iterations of the readiness loop done
  saveRet,  \* per handler: what save_to_s3 returned (discarded by stop_vm)
  prior,    \* history: the content a tenant's image had when the last
            \* request of the tenant, a stop_vm with save that returned,
            \* had stopped the instance ("-": the last request was not such
            \* a stop, or there was no image)
  response, \* _api_call on its own: the text sock.recv returned, in tokens
  result    \* _api_call on its own: "unset", then what it returned or "raise"

vars == <<vms, nprocs, ptenant, pstate, cfg, sock, rootfs, s3, hasS3,
          pc, targ, sarg, vm, polls, saveRet, prior, response, result>>

\* The two variables of _api_call taken on its own; the steps of the
\* handlers do not record the text they read.
wire == <<response, result>>

shared == <<vms, nprocs, ptenant, pstate, cfg, sock, rootfs, s3, hasS3>>
procs  == <<nprocs, ptenant, pstate, cfg>>
files  == <<sock, rootfs, s3>>

\* The manager after construction, no request taken.
ManagerInit ==
  /\ vms = [t \in Tenants |-> NoVM]
  /\ nprocs = 0
  /\ ptenant = [k \in Pids |-> "none"]
  /\ pstate = [k \in Pids |-> "none"]
  /\ cfg = [k \in Pids |-> 0]
  /\ sock = [p \in SocketPaths |-> 0]
  /\ rootfs = [p \in RootfsPaths |-> "none"]
  /\ s3 = [p \in S3Keys |-> "none"]
  /\ hasS3 \in BOOLEAN
  /\ pc = [c \in Threads |-> "idle"]
  /\ targ = [c \in Threads |-> "none"]
  /\ sarg = [c \in Threads |-> FALSE]
  /\ vm = [c \in Threads |-> 0]
  /\ polls = [c \in Threads |-> 0]
  /\ saveRet = [c \in Threads |-> FALSE]
  /\ prior = [t \in Tenants |-> "-"]
  /\ result = "unset"

Init == ManagerInit /\ response = <<>>

\* ----------------------------------------------------------------- helpers
AliveStates == {"spawned", "listening", "mute"}

Alive(k) == pstate[k] \in AliveStates

\* self.process is not None
HasHandle(k) == pstate[k] \in AliveStates \cup {"exited"}

\* FirecrackerVM.is_running: process is not None and process.poll() is None
is_running(k) == HasHandle(k) /\ Alive(k)

Goto(c, l) ==
  /\ pc' = [pc EXCEPT ![c] = l]
  /\ UNCHANGED <<targ, sarg, prior>>

StopPcs == {"sv_check", "sp_term", "sp_clean", "sv_save", "sv_del"}

\* An exception leaves create_vm / stop_vm: api.py answers HTTP 500.
Raise(c) ==
  /\ Goto(c, IF pc[c] \in StopPcs THEN "stop_500" ELSE "start_500")
  /\ UNCHANGED <<vm, polls, saveRet>>

\* create_vm returns the object k: api.py answers {"status": "running", ...}
Return(c, k) ==
  /\ Goto(c, "start_200")
  /\ vm' = [vm EXCEPT ![c] = k]
  /\ UNCHANGED <<polls, saveRet>>

\* ------------------------------------------------- api.py: the two handlers
\* POST /vm/start
start_vm(c, t) ==
  /\ pc[c] = "idle"
  /\ pc' = [pc EXCEPT ![c] = "cv_check"]
  /\ targ' = [targ EXCEPT ![c] = t]
  /\ UNCHANGED <<shared, wire, sarg, vm, polls, saveRet, prior>>

\* POST /vm/stop?save=s
stop_vm(c, t, s) ==
  /\ pc[c] = "idle"
  /\ pc' = [pc EXCEPT ![c] = "sv_check"]
  /\ targ' = [targ EXCEPT ![c] = t]
  /\ sarg' = [sarg EXCEPT ![c] = s]
  /\ prior' = [prior EXCEPT ![t] = "-"]
  /\ UNCHANGED <<shared, wire, vm, polls, saveRet>>

RespPcs == {"start_200", "start_500", "stop_200", "stop_500"}

\* The handler's response leaves; its locals die.
respond(c) ==
  /\ pc[c] \in RespPcs
  /\ pc' = [pc EXCEPT ![c] = "idle"]
  /\ targ' = [targ EXCEPT ![c] = "none"]
  /\ sarg' = [sarg EXCEPT ![c] = FALSE]
  /\ vm' = [vm EXCEPT ![c] = 0]
  /\ polls' = [polls EXCEPT ![c] = 0]
  /\ saveRet' = [saveRet EXCEPT ![c] = FALSE]
  /\ prior' = IF pc[c] = "stop_200" /\ sarg[c] /\ vm[c] # NoVM THEN prior
              ELSE [prior EXCEPT ![targ[c]] = "-"]
  /\ UNCHANGED <<shared, wire>>

\* ------------------------------------------------------ VMManager.create_vm
\* create_vm without its first two lines: every call boots anew.
create_vm_check_reboots(c) ==
  /\ pc[c] = "cv_check"
  /\ Goto(c, "cv_image")
  /\ UNCHANGED <<shared, wire, vm, polls, saveRet>>

\* if user_id in self.vms and self.vms[user_id].is_running(): return it
create_vm_check(c) ==
  /\ pc[c] = "cv_check"
  /\ \/ /\ vms[targ[c]] # NoVM
        /\ is_running(vms[targ[c]])
        /\ Return(c, vms[targ[c]])
     \/ /\ ~(vms[targ[c]] # NoVM /\ is_running(vms[targ[c]]))
        /\ Goto(c, "cv_image")
        /\ UNCHANGED <<vm, polls, saveRet>>
  /\ UNCHANGED <<shared, wire>>

\* s3_client.download_file: the object is written to the image path ("ok"),
\* there is no object (ClientError with code "404"), or the transfer fails
\* some other way ("error"), whether or not the object exists.
download_file(t) ==
  IF s3[S3Key[t]] = "none" THEN {"404", "error"} ELSE {"ok", "error"}

\* restore_from_s3 with "except ClientError: return False": every failure of
\* the download is taken for a missing object.
after_download_swallows_errors(r) ==
  IF r = "ok" THEN "true" ELSE "false"

\* try: download_file; return True / except ClientError: 404 -> False, else raise
after_download(r) ==
  IF r = "ok" THEN "true" ELSE IF r = "404" THEN "false" ELSE "raise"

\* VMManager.restore_from_s3, as create_vm uses it: "true", "false" or "raise"
restore_from_s3(t) ==
  IF ~hasS3 THEN {"false"}
  ELSE {after_download(r) : r \in download_file(t)}

\* create_vm_image without the test rootfs_path.exists(): the store is asked
\* first, whatever is on the local disk.
create_vm_image_always_restores(c) ==
  /\ pc[c] = "cv_image"
  /\ \/ /\ "true" \in restore_from_s3(targ[c])
        /\ rootfs' = [rootfs EXCEPT ![RootfsPath[targ[c]]] = s3[S3Key[targ[c]]]]
        /\ Goto(c, "st_clean")
        /\ UNCHANGED <<vm, polls, saveRet>>
     \/ /\ "false" \in restore_from_s3(targ[c])
        /\ rootfs' = [rootfs EXCEPT ![RootfsPath[targ[c]]] = "base"]
        /\ Goto(c, "st_clean")
        /\ UNCHANGED <<vm, polls, saveRet>>
     \/ /\ "raise" \in restore_from_s3(targ[c])
        /\ Raise(c)
        /\ UNCHANGED rootfs
  /\ UNCHANGED <<vms, procs, sock, s3, hasS3, wire>>

\* create_vm_image without shutil.copy: a new tenant gets no image.
create_vm_image_skips_base_copy(c) ==
  /\ pc[c] = "cv_image"
  /\ \/ /\ rootfs[RootfsPath[targ[c]]] # "none"
        /\ Goto(c, "st_clean")
        /\ UNCHANGED <<rootfs, vm, polls, saveRet>>
     \/ /\ rootfs[RootfsPath[targ[c]]] = "none"
        /\ "true" \in restore_from_s3(targ[c])
        /\ rootfs' = [rootfs EXCEPT ![RootfsPath[targ[c]]] = s3[S3Key[targ[c]]]]
        /\ Goto(c, "st_clean")
        /\ UNCHANGED <<vm, polls, saveRet>>
     \/ /\ rootfs[RootfsPath[targ[c]]] = "none"
        /\ "false" \in restore_from_s3(targ[c])
        /\ Goto(c, "st_clean")
        /\ UNCHANGED <<rootfs, vm, polls, saveRet>>
     \/ /\ rootfs[RootfsPath[targ[c]]] = "none"
        /\ "raise" \in restore_from_s3(targ[c])
        /\ Raise(c)
        /\ UNCHANGED rootfs
     \/ /\ rootfs[RootfsPath[targ[c]]] = "none"
        /\ "false" \in restore_from_s3(targ[c])
        /\ Raise(c)
        /\ UNCHANGED rootfs
  /\ UNCHANGED <<vms, procs, sock, s3, hasS3, wire>>

\* create_vm_image with a failed shutil.copy caught: start is called anyway.
create_vm_image_swallows_copy_error(c) ==
  /\ pc[c] = "cv_image"
  /\ \/ /\ rootfs[RootfsPath[targ[c]]] # "none"
        /\ Goto(c, "st_clean")
        /\ UNCHANGED <<rootfs, vm, polls, saveRet>>
     \/ /\ rootfs[RootfsPath[targ[c]]] = "none"
        /\ "true" \in restore_from_s3(targ[c])
        /\ rootfs' = [rootfs EXCEPT ![RootfsPath[targ[c]]] = s3[S3Key[targ[c]]]]
        /\ Goto(c, "st_clean")
        /\ UNCHANGED <<vm, polls, saveRet>>
     \/ /\ rootfs[RootfsPath[targ[c]]] = "none"
        /\ "false" \in restore_from_s3(targ[c])
        /\ rootfs' = [rootfs EXCEPT ![RootfsPath[targ[c]]] = "base"]
        /\ Goto(c, "st_clean")
        /\ UNCHANGED <<vm, polls, saveRet>>
     \/ /\ rootfs[RootfsPath[targ[c]]] = "none"
        /\ "raise" \in restore_from_s3(targ[c])
        /\ Raise(c)
        /\ UNCHANGED rootfs
     \/ /\ rootfs[RootfsPath[targ[c]]] = "none"
        /\ "false" \in restore_from_s3(targ[c])
        /\ Goto(c, "st_clean")
        /\ UNCHANGED <<rootfs, vm, polls, saveRet>>
  /\ UNCHANGED <<vms, procs, sock, s3, hasS3, wire>>

\* if not rootfs_path.exists(): restore from S3, else copy the base image
create_vm_image(c) ==
  /\ pc[c] = "cv_image"
  /\ \/ /\ rootfs[RootfsPath[targ[c]]] # "none"
        /\ Goto(c, "st_clean")
        /\ UNCHANGED <<rootfs, vm, polls, saveRet>>
     \/ /\ rootfs[RootfsPath[targ[c]]] = "none"
        /\ "true" \in restore_from_s3(targ[c])
        /\ rootfs' = [rootfs EXCEPT ![RootfsPath[targ[c]]] = s3[S3Key[targ[c]]]]
        /\ Goto(c, "st_clean")
        /\ UNCHANGED <<vm, polls, saveRet>>
     \/ /\ rootfs[RootfsPath[targ[c]]] = "none"
        /\ "false" \in restore_from_s3(targ[c])
        /\ rootfs' = [rootfs EXCEPT ![RootfsPath[targ[c]]] = "base"]
        /\ Goto(c, "st_clean")
        /\ UNCHANGED <<vm, polls, saveRet>>
     \/ /\ rootfs[RootfsPath[targ[c]]] = "none"
        /\ "raise" \in restore_from_s3(targ[c])
        /\ Raise(c)
        /\ UNCHANGED rootfs
     \/ /\ rootfs[RootfsPath[targ[c]]] = "none"
        /\ "false" \in restore_from_s3(targ[c])
        /\ Raise(c)
        /\ UNCHANGED rootfs
  /\ UNCHANGED <<vms, procs, sock, s3, hasS3, wire>>

\* ------------------------------------------------------ FirecrackerVM.start
\* if os.path.exists(self.socket_path): os.remove(self.socket_path)
start_clean(c) ==
  /\ pc[c] = "st_clean"
  /\ sock' = [sock EXCEPT ![SocketPath[targ[c]]] = 0]
  /\ Goto(c, "st_spawn")
  /\ UNCHANGED <<vms, procs, rootfs, s3, hasS3, wire, vm, polls, saveRet>>

\* start with the failure of Popen caught and turned into "return False".
start_spawn_swallows(c) ==
  /\ pc[c] = "st_spawn"
  /\ \/ /\ nprocs < MaxProcs
        /\ nprocs' = nprocs + 1
        /\ ptenant' = [ptenant EXCEPT ![nprocs + 1] = targ[c]]
        /\ pstate' = [pstate EXCEPT ![nprocs + 1] = "spawned"]
        /\ vm' = [vm EXCEPT ![c] = nprocs + 1]
        /\ Goto(c, "st_poll")
        /\ UNCHANGED <<polls, saveRet>>
     \/ /\ Goto(c, "cv_record")
        /\ UNCHANGED <<nprocs, ptenant, pstate, vm, polls, saveRet>>
  /\ UNCHANGED <<vms, cfg, files, hasS3, wire>>

\* self.process = subprocess.Popen(["firecracker", "--api-sock", ...])
start_spawn(c) ==
  /\ pc[c] = "st_spawn"
  /\ \/ /\ nprocs < MaxProcs
        /\ nprocs' = nprocs + 1
        /\ ptenant' = [ptenant EXCEPT ![nprocs + 1] = targ[c]]
        /\ pstate' = [pstate EXCEPT ![nprocs + 1] = "spawned"]
        /\ vm' = [vm EXCEPT ![c] = nprocs + 1]
        /\ Goto(c, "st_poll")
        /\ UNCHANGED <<polls, saveRet>>
     \/ /\ Raise(c)
        /\ UNCHANGED <<nprocs, ptenant, pstate>>
  /\ UNCHANGED <<vms, cfg, files, hasS3, wire>>

\* for _ in range(50): if os.path.exists(socket_path): break ... else: return False
start_poll(c) ==
  /\ pc[c] = "st_poll"
  /\ \/ /\ polls[c] < max_attempts
        /\ sock[SocketPath[targ[c]]] # 0
        /\ Goto(c, BootPc[1])
        /\ polls' = [polls EXCEPT ![c] = 0]
     \/ /\ polls[c] < max_attempts
        /\ sock[SocketPath[targ[c]]] = 0
        /\ polls' = [polls EXCEPT ![c] = polls[c] + 1]
        /\ UNCHANGED <<pc, targ, sarg, prior>>
     \/ /\ polls[c] = max_attempts
        /\ Goto(c, "cv_record")
        /\ polls' = [polls EXCEPT ![c] = 0]
  /\ UNCHANGED <<shared, wire, vm, saveRet>>

AfterCall(i) == IF i < 4 THEN BootPc[i + 1] ELSE "cv_record"

\* socket.connect(self.socket_path): the process behind the file now at the
\* path, 0 when the file is gone or nothing listens on it (connect raises).
Listener(t) ==
  IF sock[SocketPath[t]] = 0 THEN 0
  ELSE IF pstate[sock[SocketPath[t]]] \in {"listening", "mute"}
       THEN sock[SocketPath[t]] ELSE 0

\* ------------------------------------------- FirecrackerVM._api_call: parsing
\* A response is a sequence of tokens: "2xx" / "4xx" a status line with its
\* headers, "sep" the blank line "\r\n\r\n", "obj" a complete JSON text,
\* "cut" a text that is not one (a body cut short).
Tok == {"2xx", "4xx", "sep", "obj", "cut"}

Responses == UNION {[1..n -> Tok] : n \in 0..MaxResp}

\* Position of the first "sep" of r, 0 when there is none.
SepAt(r) ==
  IF \E i \in 1..Len(r) : r[i] = "sep"
  THEN CHOOSE i \in 1..Len(r) :
         r[i] = "sep" /\ \A j \in 1..(i - 1) : r[j] # "sep"
  ELSE 0

\* response.split("\r\n\r\n", 1)
parts(r) ==
  IF SepAt(r) = 0 THEN <<r>>
  ELSE <<SubSeq(r, 1, SepAt(r) - 1), SubSeq(r, SepAt(r) + 1, Len(r))>>

\* json.loads: the value of one complete JSON text, an exception otherwise
json_loads(b) == IF b = <<"obj">> THEN "dict" ELSE "raise"

\* if len(parts) > 1 and parts[1]: return json.loads(parts[1]) / return {}
parse_response(r) ==
  IF Len(parts(r)) > 1 /\ parts(r)[2] # <<>>
  THEN json_loads(parts(r)[2])
  ELSE "{}"

\* What one recv may hand over of the answers of the hypervisor: 204 without
\* a body when the step is applied, 400 with a fault message when it is
\* not, either of them cut short.
Replies ==
  {<<"2xx", "sep">>, <<"2xx">>,
   <<"4xx", "sep", "obj">>, <<"4xx", "sep", "cut">>, <<"4xx", "sep">>,
   <<"4xx">>, <<>>}

\* The hypervisor applied the step it answers.
Applied(r) == r # <<>> /\ r[1] = "2xx"

\* self._api_call("PUT", ...): the i-th control-plane call of start.  connect
\* raises when nothing listens at the path; otherwise the hypervisor applies
\* the step or not, and start goes on unless parsing the answer raises: the
\* value _api_call returns is dropped.
api_call(c, i) ==
  /\ pc[c] = BootPc[i]
  /\ \/ /\ Listener(targ[c]) = 0
        /\ Raise(c)
        /\ UNCHANGED cfg
     \/ /\ Listener(targ[c]) # 0
        /\ pstate[Listener(targ[c])] = "listening"
        /\ \E r \in Replies :
             /\ Applied(r) => cfg[Listener(targ[c])] = i - 1
             /\ cfg' = IF Applied(r)
                       THEN [cfg EXCEPT ![Listener(targ[c])] = i]
                       ELSE cfg
             /\ \/ /\ parse_response(r) # "raise"
                   /\ Goto(c, AfterCall(i))
                   /\ UNCHANGED <<vm, polls, saveRet>>
                \/ /\ parse_response(r) = "raise"
                   /\ Raise(c)
  /\ UNCHANGED <<vms, nprocs, ptenant, pstate, files, hasS3, wire>>

\* vm.start() has returned (its value is dropped); self.vms[user_id] = vm; return vm
create_vm_record(c) ==
  /\ pc[c] = "cv_record"
  /\ vms' = [vms EXCEPT ![targ[c]] = vm[c]]
  /\ Return(c, vm[c])
  /\ UNCHANGED <<procs, files, hasS3, wire>>

\* -------------------------------------------------------- VMManager.stop_vm
\* stop_vm without its membership test: self.vms[user_id] raises KeyError.
stop_vm_check_keyerror(c) ==
  /\ pc[c] = "sv_check"
  /\ \/ /\ vms[targ[c]] = NoVM
        /\ Raise(c)
     \/ /\ vms[targ[c]] # NoVM
        /\ vm' = [vm EXCEPT ![c] = vms[targ[c]]]
        /\ Goto(c, "sp_term")
        /\ UNCHANGED <<polls, saveRet>>
  /\ UNCHANGED <<shared, wire>>

\* if user_id not in self.vms: return;  vm = self.vms[user_id]
stop_vm_check(c) ==
  /\ pc[c] = "sv_check"
  /\ \/ /\ vms[targ[c]] = NoVM
        /\ Goto(c, "stop_200")
        /\ UNCHANGED <<vm, polls, saveRet>>
     \/ /\ vms[targ[c]] # NoVM
        /\ vm' = [vm EXCEPT ![c] = vms[targ[c]]]
        /\ Goto(c, "sp_term")
        /\ UNCHANGED <<polls, saveRet>>
  /\ UNCHANGED <<shared, wire>>

\* The instance is stopped: stop goes on, and the history takes the image
\* as the instance left it.
Stopped(c) ==
  /\ pc' = [pc EXCEPT ![c] = "sp_clean"]
  /\ prior' = [prior EXCEPT ![targ[c]] =
                 IF sarg[c] /\ rootfs[RootfsPath[targ[c]]] # "none"
                 THEN rootfs[RootfsPath[targ[c]]] ELSE "-"]
  /\ UNCHANGED <<targ, sarg>>

\* FirecrackerVM.stop: if self.process: terminate(); wait(timeout=10); process = None
stop_terminate(c) ==
  /\ pc[c] = "sp_term"
  /\ \/ /\ ~HasHandle(vm[c])
        /\ Stopped(c)
        /\ UNCHANGED <<pstate, cfg, vm, polls, saveRet>>
     \/ /\ HasHandle(vm[c])
        /\ pstate' = [pstate EXCEPT ![vm[c]] = "stopped"]
        /\ cfg' = [cfg EXCEPT ![vm[c]] = 0]
        /\ Stopped(c)
        /\ UNCHANGED <<vm, polls, saveRet>>
     \/ /\ HasHandle(vm[c])
        /\ Alive(vm[c])
        /\ Raise(c)
        /\ UNCHANGED <<pstate, cfg>>
  /\ UNCHANGED <<vms, nprocs, ptenant, files, hasS3, wire>>

\* stop_clean with the test of save left out: the upload is always attempted.
stop_clean_always_saves(c) ==
  /\ pc[c] = "sp_clean"
  /\ sock' = [sock EXCEPT ![SocketPath[targ[c]]] = 0]
  /\ Goto(c, "sv_save")
  /\ UNCHANGED <<vms, procs, rootfs, s3, hasS3, wire, vm, polls, saveRet>>

\* FirecrackerVM.stop: if os.path.exists(self.socket_path): os.remove(...)
stop_clean(c) ==
  /\ pc[c] = "sp_clean"
  /\ sock' = [sock EXCEPT ![SocketPath[targ[c]]] = 0]
  /\ Goto(c, IF sarg[c] THEN "sv_save" ELSE "sv_del")
  /\ UNCHANGED <<vms, procs, rootfs, s3, hasS3, wire, vm, polls, saveRet>>

\* VMManager.save_to_s3: "true", "false" or "raise"
save_to_s3(t) ==
  IF ~hasS3 THEN {"false"}
  ELSE IF rootfs[RootfsPath[t]] = "none" THEN {"false"}
  ELSE {"true", "raise"}

\* if save: self.save_to_s3(user_id)
stop_vm_save(c) ==
  /\ pc[c] = "sv_save"
  /\ \/ /\ "true" \in save_to_s3(targ[c])
        /\ s3' = [s3 EXCEPT ![S3Key[targ[c]]] = rootfs[RootfsPath[targ[c]]]]
        /\ saveRet' = [saveRet EXCEPT ![c] = TRUE]
        /\ Goto(c, "sv_del")
        /\ UNCHANGED <<vm, polls>>
     \/ /\ "false" \in save_to_s3(targ[c])
        /\ saveRet' = [saveRet EXCEPT ![c] = FALSE]
        /\ Goto(c, "sv_del")
        /\ UNCHANGED <<s3, vm, polls>>
     \/ /\ "raise" \in save_to_s3(targ[c])
        /\ Raise(c)
        /\ UNCHANGED s3
  /\ UNCHANGED <<vms, procs, sock, rootfs, hasS3, wire>>

\* stop_vm_del that also discards the stored object of a stop without save.
stop_vm_del_drops_snapshot(c) ==
  /\ pc[c] = "sv_del"
  /\ \/ /\ vms[targ[c]] # NoVM
        /\ vms' = [vms EXCEPT ![targ[c]] = NoVM]
        /\ s3' = IF sarg[c] THEN s3 ELSE [s3 EXCEPT ![S3Key[targ[c]]] = "none"]
        /\ Goto(c, "stop_200")
     \/ /\ vms[targ[c]] = NoVM
        /\ Raise(c)
        /\ UNCHANGED <<vms, s3>>
  /\ UNCHANGED <<procs, sock, rootfs, hasS3, wire, vm, polls, saveRet>>

\* del self.vms[user_id]
stop_vm_del(c) ==
  /\ pc[c] = "sv_del"
  /\ \/ /\ vms[targ[c]] # NoVM
        /\ vms' = [vms EXCEPT ![targ[c]] = NoVM]
        /\ Goto(c, "stop_200")
     \/ /\ vms[targ[c]] = NoVM
        /\ Raise(c)
        /\ UNCHANGED vms
  /\ UNCHANGED <<procs, files, hasS3, wire, vm, polls, saveRet>>

\* ------------------------------------------------------------ environment
\* The hypervisor binds the socket it was given with --api-sock; bind
\* fails when a file is already at the path.
proc_bind(k) ==
  /\ pstate[k] = "spawned"
  /\ sock[SocketPath[ptenant[k]]] = 0
  /\ pstate' = [pstate EXCEPT ![k] = "listening"]
  /\ sock' = [sock EXCEPT ![SocketPath[ptenant[k]]] = k]
  /\ UNCHANGED <<vms, nprocs, ptenant, cfg, rootfs, s3, hasS3, wire,
                 pc, targ, sarg, vm, polls, saveRet, prior>>

\* The process exits on its own (process.poll() is no longer None).
proc_exit(k) ==
  /\ Alive(k)
  /\ pstate' = [pstate EXCEPT ![k] = "exited"]
  /\ cfg' = [cfg EXCEPT ![k] = 0]
  /\ UNCHANGED <<vms, nprocs, ptenant, files, hasS3, wire,
                 pc, targ, sarg, vm, polls, saveRet, prior>>

\* The hypervisor stops serving its API socket while it stays alive: a
\* connect still succeeds, and sock.recv, which has no timeout, never returns.
proc_hang(k) ==
  /\ pstate[k] = "listening"
  /\ pstate' = [pstate EXCEPT ![k] = "mute"]
  /\ UNCHANGED <<vms, nprocs, ptenant, cfg, files, hasS3, wire,
                 pc, targ, sarg, vm, polls, saveRet, prior>>

\* The guest writes its root drive, which start attached read-write
\* (is_read_only: False): the image file on the host changes.
guest_write(k) ==
  /\ Alive(k)
  /\ cfg[k] = 4
  /\ rootfs[RootfsPath[ptenant[k]]] # "none"
  /\ rootfs' = [rootfs EXCEPT ![RootfsPath[ptenant[k]]] = "user"]
  /\ UNCHANGED <<vms, procs, sock, s3, hasS3, wire,
                 pc, targ, sarg, vm, polls, saveRet, prior>>

\* The local image cache (vm_dir, under /tmp) loses the file at a path while
\* nothing runs on it and no handler works on it: rootfs_path.exists() is
\* false again.
image_lost(p) ==
  /\ rootfs[p] # "none"
  /\ \A k \in Pids : Alive(k) => RootfsPath[ptenant[k]] # p
  /\ \A c \in Threads : targ[c] \in Tenants => RootfsPath[targ[c]] # p
  /\ rootfs' = [rootfs EXCEPT ![p] = "none"]
  /\ UNCHANGED <<vms, procs, sock, s3, hasS3, wire,
                 pc, targ, sarg, vm, polls, saveRet, prior>>

\* ---------------------------------------------------------- specification
\* VMManager.get_vm: the entry of the map, whatever the state of its process.
get_vm(t) == vms[t]

\* GET /vm/status: "running" iff there is an entry whose process has not exited.
vm_status(t) ==
  IF get_vm(t) # NoVM /\ is_running(get_vm(t)) THEN "running" ELSE "stopped"

\* _execute_in_vm: refused unless the status is running; otherwise the image
\* file is mounted on the host and the command runs in it, writing the image.
\* The function is synchronous: one step of the handler that takes it.
_execute_in_vm(c, t) ==
  /\ pc[c] = "idle"
  /\ vm_status(t) = "running"
  /\ rootfs[RootfsPath[t]] # "none"
  /\ rootfs' = [rootfs EXCEPT ![RootfsPath[t]] = "user"]
  /\ UNCHANGED <<vms, procs, sock, s3, hasS3, wire,
                 pc, targ, sarg, vm, polls, saveRet, prior>>

\* The statements of create_vm, start, stop_vm, stop and of the handlers.
Work(c) ==
  \/ create_vm_check(c)
  \/ create_vm_image(c)
  \/ start_clean(c)
  \/ start_spawn(c)
  \/ start_poll(c)
  \/ \E i \in 1..4 : api_call(c, i)
  \/ create_vm_record(c)
  \/ stop_vm_check(c)
  \/ stop_terminate(c)
  \/ stop_clean(c)
  \/ stop_vm_save(c)
  \/ stop_vm_del(c)
  \/ respond(c)

Env ==
  \/ \E k \in Pids : proc_bind(k)
  \/ \E k \in Pids : proc_exit(k)
  \/ \E p \in RootfsPaths : image_lost(p)

\* Handlers interleaved at every step; the requests are for one tenant, the
\* races of the manager being races on one tenant's entry, files and processes.
\* What the image holds plays no part in them: Spec leaves the writes of the
\* image out, SeqSpec and AliasSpec have them.
Contended == {"alice"}

Next ==
  \/ \E c \in Threads : \E t \in Contended : start_vm(c, t)
  \/ \E c \in Threads : \E t \in Contended : \E s \in BOOLEAN : stop_vm(c, t, s)
  \/ \E c \in Threads : Work(c)
  \/ Env

Spec == Init /\ [][Next]_vars

\* One handler at a time: a request is taken only when no other is running.
Serial(c) == \A d \in Threads \ {c} : pc[d] = "idle"

serial_start_vm(c, t) == Serial(c) /\ start_vm(c, t)

serial_stop_vm(c, t, s) == Serial(c) /\ stop_vm(c, t, s)

serial_execute_in_vm(c, t) == Serial(c) /\ _execute_in_vm(c, t)

\* The requests of users whose ids give them disjoint files.
Named == {"alice", "bob"}

SeqNext ==
  \/ \E c \in Threads : \E t \in Named : serial_start_vm(c, t)
  \/ \E c \in Threads : \E t \in Named : \E s \in BOOLEAN : serial_stop_vm(c, t, s)
  \/ \E c \in Threads : \E t \in Named : serial_execute_in_vm(c, t)
  \/ \E c \in Threads : Work(c)
  \/ Env
  \/ \E k \in Pids : guest_write(k)

SeqSpec == Init /\ [][SeqNext]_vars

\* The requests of two registered users whose ids differ by a "./" prefix.
Aliased == {"alice", "./alice"}

AliasNext ==
  \/ \E c \in Threads : \E t \in Aliased : serial_start_vm(c, t)
  \/ \E c \in Threads : \E t \in Aliased : \E s \in BOOLEAN : serial_stop_vm(c, t, s)
  \/ \E c \in Threads : \E t \in Aliased : serial_execute_in_vm(c, t)
  \/ \E c \in Threads : Work(c)
  \/ Env
  \/ \E k \in Pids : guest_write(k)

AliasSpec == Init /\ [][AliasNext]_vars

\* One handler at a time on one tenant, with a hypervisor that may stop
\* answering.  A handler that can take a step takes one: the server thread
\* is scheduled.  Nothing is assumed of the hypervisor processes.
LiveNext ==
  \/ \E c \in Threads : \E t \in Contended : serial_start_vm(c, t)
  \/ \E c \in Threads : \E t \in Contended : \E s \in BOOLEAN : serial_stop_vm(c, t, s)
  \/ \E c \in Threads : Work(c)
  \/ Env
  \/ \E k \in Pids : proc_hang(k)

LiveSpec ==
  Init /\ [][LiveNext]_vars /\ \A c \in Threads : WF_vars(Work(c))

\* _api_call on its own: a response of up to MaxResp tokens has been read and
\* is parsed.
ParseInit == ManagerInit /\ response \in Responses

_api_call_returns ==
  /\ result = "unset"
  /\ result' = parse_response(response)
  /\ UNCHANGED <<shared, response, pc, targ, sarg, vm, polls, saveRet, prior>>

ParseNext == _api_call_returns

ParseSpec == ParseInit /\ [][ParseNext]_vars

TypeOK ==
  /\ vms \in [Tenants -> 0..MaxProcs]
  /\ nprocs \in 0..MaxProcs
  /\ pstate \in [Pids -> {"none", "spawned", "listening", "mute", "exited",
                         "stopped"}]
  /\ cfg \in [Pids -> 0..4]
  /\ sock \in [SocketPaths -> 0..MaxProcs]
  /\ rootfs \in [RootfsPaths -> {"none", "base", "user"}]
  /\ s3 \in [S3Keys -> {"none", "base", "user"}]
  /\ polls \in [Threads -> 0..max_attempts]
  /\ prior \in [Tenants -> {"-", "base", "user"}]
  /\ response \in Responses
  /\ result \in {"unset", "{}", "dict", "raise"}

\* ------------------------------------------------------------------ claims
LiveProcs(t) == {k \in Pids : ptenant[k] = t /\ Alive(k)}

\* The handler c takes a step.
Moves(c) == pc'[c] # pc[c]

\* The pcs of create_vm after Popen has returned a process.
BootingPcs == {"st_poll", "st_boot_source", "st_drive", "st_machine",
               "st_action", "cv_record"}

\* C1: in every reachable state each tenant has at most one spawned
\* hypervisor process that has not exited.
C1_OneLivePerTenant ==
  \A t \in Tenants : Cardinality(LiveProcs(t)) <= 1

\* C2: concurrent create_vm calls for one tenant never both find it absent
\* and both spawn: no two calls in flight for the same tenant hold two
\* different live processes.
C2_NoDoubleSpawn ==
  \A c \in Threads : \A d \in Threads \ {c} :
    (/\ pc[c] \in BootingPcs
     /\ pc[d] \in BootingPcs
     /\ targ[c] = targ[d])
    => ~(vm[c] # vm[d] /\ Alive(vm[c]) /\ Alive(vm[d]))

\* C3: a create_vm call that finds a live instance recorded for its tenant
\* returns that instance in the same step, spawning nothing and leaving the
\* map, the processes, the socket, the images and the store as they were.
C3_Idempotent ==
  [][\A c \in Threads :
       (/\ pc[c] = "cv_check"
        /\ vms[targ[c]] # NoVM
        /\ is_running(vms[targ[c]])
        /\ Moves(c))
       => (/\ pc'[c] = "start_200"
           /\ vm'[c] = vms[targ[c]]
           /\ UNCHANGED shared)]_vars

\* C3 witness: two calls have returned the same live instance, one process
\* spawned in all.
C3_Witness ==
  /\ pc[1] = "start_200"
  /\ pc[2] = "start_200"
  /\ vm[1] # NoVM
  /\ vm[1] = vm[2]
  /\ vms[targ[1]] = vm[1]
  /\ is_running(vm[1])
  /\ nprocs = 1

\* C4: the map never holds, and no caller is answered "running" for, a live
\* instance whose boot did not complete all four steps.
C4_BootFailureNotRecorded ==
  /\ \A t \in Tenants :
       (vms[t] # NoVM /\ Alive(vms[t])) => cfg[vms[t]] = 4
  /\ \A c \in Threads :
       (pc[c] = "start_200" /\ Alive(vm[c])) => cfg[vm[c]] = 4

\* C5: once create_vm has ended, a process it spawned whose boot did not
\* complete is not left running.
C5_AtomicBootFailure ==
  \A c \in Threads :
    (/\ pc[c] \in {"start_200", "start_500"}
     /\ vm[c] # NoVM
     /\ cfg[vm[c]] < 4)
    => ~Alive(vm[c])

\* C6: when the readiness poll runs out, the call ends with the failure
\* surfaced, the process killed, no control-plane call made and nothing
\* recorded.
C6_PollTimeoutFails ==
  [][\A c \in Threads :
       (/\ pc[c] = "st_poll"
        /\ polls[c] = max_attempts
        /\ Moves(c))
       => (/\ pc'[c] = "start_500"
           /\ ~Alive(vm[c])'
           /\ vms' = vms
           /\ cfg' = cfg)]_vars

\* C7: a failed Popen ends the call with the failure surfaced, without a
\* second spawn attempt; and no step of create_vm up to and including the
\* spawn writes the map.
C7_SpawnFailureSurfaced ==
  [][\A c \in Threads :
       /\ (pc[c] \in {"cv_check", "cv_image", "st_clean", "st_spawn"} /\ Moves(c))
            => vms' = vms
       /\ (pc[c] = "st_spawn" /\ Moves(c) /\ nprocs' = nprocs)
            => (pc'[c] = "start_500" /\ vm'[c] = NoVM /\ UNCHANGED shared)]_vars

\* C7 witness: a call ended in an error with its image in place and no
\* process of its own: Popen failed.  A stale entry is still in the map.
C7_Witness ==
  \E c \in Threads :
    /\ pc[c] = "start_500"
    /\ vm[c] = NoVM
    /\ rootfs[RootfsPath[targ[c]]] # "none"
    /\ vms[targ[c]] # NoVM
    /\ nprocs < MaxProcs

\* C8: stop_vm for a tenant with no entry in the map returns normally in one
\* step that changes nothing: no signal, no upload, no file removed.
C8_StopAbsentNoop ==
  [][\A c \in Threads :
       (/\ pc[c] = "sv_check"
        /\ vms[targ[c]] = NoVM
        /\ Moves(c))
       => (/\ pc'[c] = "stop_200"
           /\ vm'[c] = NoVM
           /\ UNCHANGED shared)]_vars

\* C8 witness: a stop returned without having looked up an instance, while
\* a process and the socket of that tenant exist (and were left alone).
C8_Witness ==
  \E c \in Threads :
    /\ pc[c] = "stop_200"
    /\ vm[c] = NoVM
    /\ vms[targ[c]] = NoVM
    /\ sock[SocketPath[targ[c]]] # 0
    /\ LiveProcs(targ[c]) # {}

\* C9: once stop_vm(t, save=True) has stopped the process of a recorded
\* instance and ended, t is no longer in the map, whatever the upload did.
C9_RemovedWhateverSave ==
  \A c \in Threads :
    (/\ pc[c] \in {"stop_200", "stop_500"}
     /\ sarg[c]
     /\ vm[c] # NoVM
     /\ pstate[vm[c]] = "stopped")
    => vms[targ[c]] = NoVM

\* C10: stop_vm(t, save=True) on a recorded instance answers
\* {"status": "stopped", "saved": true} only if the image was uploaded.
C10_SaveFailureReported ==
  \A c \in Threads :
    (/\ pc[c] = "stop_200"
     /\ sarg[c]
     /\ vm[c] # NoVM)
    => saveRet[c]

\* C11: a stop_vm called with save false never reaches save_to_s3 and none
\* of its steps changes the durable object of any key; when it returns after
\* having found an entry, the process of that entry is not alive and the
\* tenant has no entry.
C11_StopWithoutSave ==
  [][\A c \in Threads :
       (pc[c] \in StopPcs /\ ~sarg[c] /\ Moves(c)) =>
         /\ s3' = s3
         /\ pc'[c] # "sv_save"
         /\ (pc'[c] = "stop_200" /\ vm'[c] # NoVM) =>
              /\ vms'[targ[c]] = NoVM
              /\ pstate'[vm'[c]] \notin AliveStates]_vars

\* A stop without save has returned after stopping an instance, the store was
\* configured, the local image exists and the durable object does not.
C11_Witness ==
  \E c \in Threads :
    /\ pc[c] = "stop_200" /\ ~sarg[c] /\ vm[c] # NoVM
    /\ hasS3
    /\ rootfs[RootfsPath[targ[c]]] = "base"
    /\ s3[S3Key[targ[c]]] = "none"
    /\ vms[targ[c]] = NoVM

\* C12: when the last request of a tenant was a stop_vm with save that found
\* an entry and returned, the create_vm that follows goes on to boot with the
\* local image holding what it held when that stop was taken; and where
\* save_to_s3 uploads, the object at the tenant's key becomes the local
\* image, where restore_from_s3 downloads, the local image becomes the
\* object at the same key.
C12_RoundTrip ==
  [][\A c \in Threads :
       /\ (pc[c] = "cv_image" /\ pc'[c] = "st_clean"
             /\ prior[targ[c]] # "-") =>
            rootfs'[RootfsPath[targ[c]]] = prior[targ[c]]
       /\ (pc[c] = "sv_save" /\ pc'[c] = "sv_del" /\ saveRet'[c]) =>
            s3'[S3Key[targ[c]]] = rootfs[RootfsPath[targ[c]]]
       /\ (pc[c] = "cv_image" /\ pc'[c] = "st_clean"
             /\ rootfs[RootfsPath[targ[c]]] = "none"
             /\ s3[S3Key[targ[c]]] # "none" /\ hasS3) =>
            rootfs'[RootfsPath[targ[c]]] = s3[S3Key[targ[c]]]]_vars

\* C13: a create_vm that finds neither a local image nor an object at the
\* tenant's key either fails, leaving the images alone, or goes on to start
\* with the base image at the tenant's image path; a create_vm whose start
\* has returned records the instance it started and returns it, and the
\* status of the tenant is then running if the process has not exited.
C13_NewTenantGetsBase ==
  [][\A c \in Threads :
       /\ (/\ pc[c] = "cv_image" /\ Moves(c)
           /\ rootfs[RootfsPath[targ[c]]] = "none"
           /\ s3[S3Key[targ[c]]] = "none")
          => \/ /\ pc'[c] = "st_clean"
                /\ rootfs' = [rootfs EXCEPT ![RootfsPath[targ[c]]] = "base"]
             \/ /\ pc'[c] = "start_500"
                /\ rootfs' = rootfs
       /\ (pc[c] = "cv_record" /\ Moves(c))
          => /\ pc'[c] = "start_200"
             /\ vm'[c] = vm[c]
             /\ vms'[targ[c]] = vm[c]
             /\ is_running(vm[c]) => vm_status(targ[c])' = "running"]_vars

\* C13 witness: the first process ever spawned runs the base image for a
\* tenant with no object in the store; it is recorded, booted and returned.
C13_Witness ==
  \E c \in Threads :
    /\ pc[c] = "start_200"
    /\ nprocs = 1 /\ vm[c] = 1
    /\ vms[targ[c]] = 1
    /\ cfg[1] = 4
    /\ rootfs[RootfsPath[targ[c]]] = "base"
    /\ s3[S3Key[targ[c]]] = "none"
    /\ vm_status(targ[c]) = "running"

\* C14: while no handler works on a tenant, get_vm yields an instance for
\* the tenant exactly when a process of the tenant has completed its boot
\* and has not exited.
C14_GetVmIffRunning ==
  \A t \in Tenants :
    (\A c \in Threads : targ[c] # t) =>
      (get_vm(t) # NoVM <=>
         \E k \in Pids : ptenant[k] = t /\ Alive(k) /\ cfg[k] = 4)

\* C15: a handler spawns a process only when the image file of its tenant
\* exists, and a create_vm whose image step leaves no file at the path ends
\* in an error without calling start.
C15_SpawnNeedsImage ==
  [][\A c \in Threads :
       /\ (pc[c] = "st_spawn" /\ nprocs' # nprocs)
          => rootfs[RootfsPath[targ[c]]] # "none"
       /\ (pc[c] = "cv_image" /\ Moves(c)
             /\ rootfs'[RootfsPath[targ[c]]] = "none")
          => pc'[c] = "start_500"]_vars

\* C15 witness: a create_vm has ended in an error with no image at its path
\* and no process spawned by anyone.
C15_Witness ==
  \E c \in Threads :
    /\ pc[c] = "start_500"
    /\ vm[c] = NoVM
    /\ rootfs[RootfsPath[targ[c]]] = "none"
    /\ nprocs = 0

\* C16: a control-plane call is made only while the socket file of the
\* caller's instance exists, and a call that does not end in an error was
\* answered by the caller's own process, alive at that moment.
C16_CallsReachOwnProcess ==
  [][\A c \in Threads :
       (pc[c] \in {BootPc[i] : i \in 1..4} /\ Moves(c)) =>
         /\ sock[SocketPath[targ[c]]] # 0
         /\ pc'[c] # "start_500" =>
              (Listener(targ[c]) = vm[c] /\ Alive(vm[c]))]_vars

\* C17: stop_vm takes its first step, the look-up of the tenant's entry,
\* only when no create_vm of the same tenant is between the spawn of its
\* process and the recording of its instance.
C17_StopWaitsForBoot ==
  [][\A c \in Threads :
       (pc[c] = "sv_check" /\ Moves(c)) =>
         \A d \in Threads \ {c} :
           targ[d] = targ[c] => pc[d] \notin BootingPcs]_vars

\* C18: when stop_vm uploads the image of its tenant, no process of the
\* tenant that has the image attached as its drive is alive.
C18_UploadAfterTermination ==
  [][\A c \in Threads :
       (pc[c] = "sv_save" /\ pc'[c] = "sv_del" /\ saveRet'[c]) =>
         \A k \in Pids :
           (ptenant[k] = targ[c] /\ Alive(k)) => cfg[k] < 2]_vars

\* C19: restore_from_s3 returns false only when there is no client or no
\* object at the tenant's key, and true only when there is an object; a
\* create_vm without a local image that goes on to start has the object as
\* its image when there is one and the base image otherwise, and one that
\* ends in an error at that point has changed nothing and has no process.
C19_RestoreOutcomes ==
  /\ [](\A t \in Tenants :
         /\ "false" \in restore_from_s3(t) =>
              (~hasS3 \/ s3[S3Key[t]] = "none")
         /\ "true" \in restore_from_s3(t) =>
              (hasS3 /\ s3[S3Key[t]] # "none"))
  /\ [][\A c \in Threads :
          (/\ pc[c] = "cv_image" /\ Moves(c)
           /\ rootfs[RootfsPath[targ[c]]] = "none")
          => /\ pc'[c] = "st_clean" =>
                  rootfs'[RootfsPath[targ[c]]] =
                    IF hasS3 /\ s3[S3Key[targ[c]]] # "none"
                    THEN s3[S3Key[targ[c]]] ELSE "base"
             /\ pc'[c] = "start_500" =>
                  (UNCHANGED shared /\ vm'[c] = NoVM)]_vars

\* C19 witness: a create_vm has ended in an error with no local image while
\* the store holds an object for its tenant: the download failed, no base
\* image was installed and no process was spawned for the call.
C19_Witness ==
  \E c \in Threads :
    /\ pc[c] = "start_500"
    /\ vm[c] = NoVM
    /\ hasS3
    /\ rootfs[RootfsPath[targ[c]]] = "none"
    /\ s3[S3Key[targ[c]]] # "none"

\* C20: a step of create_vm or stop_vm for one user leaves the entry, the
\* processes, the socket file, the image file and the stored object of
\* every other user as they were (the files of two users being different
\* files, as their ids are different ids).
C20_TenantIsolation ==
  [][\A c \in Threads :
       (pc[c] # "idle" /\ Moves(c)) =>
         \A u \in Tenants \ {targ[c]} :
           /\ vms'[u] = vms[u]
           /\ sock'[SocketPath[u]] = sock[SocketPath[u]]
           /\ rootfs'[RootfsPath[u]] = rootfs[RootfsPath[u]]
           /\ s3'[S3Key[u]] = s3[S3Key[u]]
           /\ \A k \in Pids :
                ptenant[k] = u =>
                  /\ ptenant'[k] = u
                  /\ pstate'[k] = pstate[k]
                  /\ cfg'[k] = cfg[k]]_vars

\* C21: the four control-plane calls are made in the order of BootPc, and
\* the i-th call is sent to a hypervisor that has applied exactly the i-1
\* steps before it; in particular InstanceStart goes to a hypervisor that
\* has applied the boot source, the drive and the machine configuration.
C21_CallsInOrderOnAppliedSteps ==
  [][\A c \in Threads : \A i \in 1..4 :
       (pc[c] = BootPc[i] /\ Moves(c)) =>
         /\ pc'[c] \in {AfterCall(i), "start_500"}
         /\ Listener(targ[c]) # 0 => cfg[Listener(targ[c])] = i - 1]_vars

\* A response with a status line, the blank line and either no body or one
\* complete JSON text.
Complete(r) ==
  /\ Len(r) \in {2, 3}
  /\ r[1] \in {"2xx", "4xx"}
  /\ r[2] = "sep"
  /\ Len(r) = 3 => r[3] = "obj"

\* C22: _api_call returns a value, rather than raising, only for a response
\* that is complete and carries a success status.
C22_NoSilentAcceptance ==
  result \in {"{}", "dict"} => (Complete(response) /\ response[1] = "2xx")

\* C23: whenever FirecrackerVM.stop ends, by returning or by an exception,
\* the process of the instance is no longer alive.
C23_StopEndsWithProcessDead ==
  [][\A c \in Threads :
       (pc[c] = "sp_term" /\ Moves(c)) =>
         pstate'[vm[c]] \notin AliveStates]_vars

\* C24: whenever FirecrackerVM.stop ends, by returning or by an exception,
\* no file is left at the socket path of the instance.
C24_StopRemovesSocket ==
  [][\A c \in Threads :
       (pc[c] \in {"sp_term", "sp_clean"} /\ pc'[c] \notin {"sp_term", "sp_clean"}) =>
         sock'[SocketPath[targ[c]]] = 0]_vars

\* C25: every boot that start has begun ends: start returns (True or False)
\* or raises.
C25_BootEnds ==
  \A c \in Threads :
    (pc[c] = "st_clean") ~> (pc[c] \in {"cv_record", "start_500"})

\* C26: an instance is handed to create_vm as started only by the step that
\* follows the last configuration call, and a handler spawns a process for a
\* tenant only when no process of the tenant is alive.
C26_Lifecycle ==
  [][\A c \in Threads :
       /\ (pc'[c] = "cv_record" /\ Moves(c)) => pc[c] = "st_action"
       /\ (pc[c] = "st_spawn" /\ nprocs' # nprocs) =>
            LiveProcs(targ[c]) = {}]_vars

\* C27: no step removes the stored object of a key, and the object of a key
\* changes only in a step of stop_vm, for a user of that key, in which
\* save_to_s3 uploads the local image of that user.
C27_SnapshotKept ==
  [][\A t \in Tenants :
       /\ s3[S3Key[t]] # "none" => s3'[S3Key[t]] # "none"
       /\ s3'[S3Key[t]] # s3[S3Key[t]] =>
            \E c \in Threads :
              /\ pc[c] = "sv_save" /\ pc'[c] = "sv_del"
              /\ S3Key[targ[c]] = S3Key[t]
              /\ s3'[S3Key[t]] = rootfs[RootfsPath[targ[c]]]]_vars

\* C27 witness: a stop_vm without save has found an entry and returned while
\* the key of its tenant holds an object that an earlier save had replaced
\* with the image the guest wrote.
C27_Witness ==
  \E c \in Threads :
    /\ pc[c] = "stop_200" /\ ~sarg[c] /\ vm[c] # NoVM
    /\ s3[S3Key[targ[c]]] = "user"

\* C28: a create_vm that finds a local image at the path of its tenant goes
\* on to start whatever the store holds or answers, and leaves every image
\* and every stored object as it was.
C28_LocalImageKept ==
  [][\A c \in Threads :
       (/\ pc[c] = "cv_image" /\ Moves(c)
        /\ rootfs[RootfsPath[targ[c]]] # "none")
       => (/\ pc'[c] = "st_clean"
           /\ rootfs' = rootfs
           /\ s3' = s3)]_vars

\* C28 witness: a create_vm is about to start with the image the guest
\* wrote, while the store is configured and holds an older image under the
\* key of the tenant.
C28_Witness ==
  \E c \in Threads :
    /\ pc[c] = "st_clean"
    /\ hasS3
    /\ rootfs[RootfsPath[targ[c]]] = "user"
    /\ s3[S3Key[targ[c]]] = "base"

\* C29: start removes the socket file only when the process that bound it
\* is no longer alive, and a control-plane call that is answered is answered
\* by the process spawned in the same start call.
C29_SocketOfOwnProcess ==
  [][\A c \in Threads :
       /\ (pc[c] = "st_clean" /\ Moves(c)
             /\ sock[SocketPath[targ[c]]] # 0) =>
            ~Alive(sock[SocketPath[targ[c]]])
       /\ (pc[c] \in {BootPc[i] : i \in 1..4} /\ Moves(c)
             /\ Listener(targ[c]) # 0) =>
            Listener(targ[c]) = vm[c]]_vars

\* C30: when create_vm records an instance over the entry of an exited
\* process, the instance is a new one; its process, if it has not exited in
\* its turn, has completed its boot and is the only live process of the
\* tenant, and the socket file of the tenant, if any, is the one it bound.
C30_CrashedReplaced ==
  [][\A c \in Threads :
       (/\ pc[c] = "cv_record" /\ Moves(c)
        /\ vms[targ[c]] # NoVM
        /\ pstate[vms[targ[c]]] = "exited")
       => (/\ vms'[targ[c]] = vm[c]
           /\ vm[c] # vms[targ[c]]
           /\ LiveProcs(targ[c]) \subseteq {vm[c]}
           /\ Alive(vm[c]) => cfg[vm[c]] = 4
           /\ sock[SocketPath[targ[c]]] \in {0, vm[c]})]_vars
====
